---- MODULE Spec2Model ----
(***************************************************************************)
(* Model of lifelife-bouncer.py: a reconnect-tolerant relay between        *)
(* clients and one upstream MUD connection per session.                    *)
(*                                                                         *)
(* Every coroutine of the program is a process of the model; a process     *)
(* moves from one await that can suspend it to the next in one step.       *)
(* Upstream bytes are numbered by their offset in the upstream stream, so  *)
(* byte k of the stream is the number k and a chunk is a sequence of       *)
(* consecutive numbers.  Client frames are given at frame level (the       *)
(* result of unpack_frames on what was read).                              *)
(***************************************************************************)
EXTENDS Integers, Sequences, FiniteSets, TLC

(* ---------------- bounds of the model ---------------- *)
MaxSessions == 1
MaxConns == 2
MaxChunk == 2
MaxTotal == 3
ResumeTotal == 2
BufferTotal == 4
MaxAck == 2
MaxOffset == 2
MaxUpWrites == 1
TickStep == 400
MaxNow == 800
\* byte budget of the replay buffer (BUFFER_LIMIT, 65536 in the source),
\* scaled down with the chunk size so that eviction happens
BUFFER_LIMIT == 2
\* the frames fed to the codec: how many, how long, over which byte values
MaxFrames == 2
MaxPayload == 2
MaxByte == 1

(* ---------------- program constants ---------------- *)
SESSION_TIMEOUT == 600
TYPE_DATA == 0
TYPE_CTRL == 1

None == 0
\* the JSON values a client can send as "ack": an integer n, the float
\* n + 0.5, a string, or null
JsonInt(n) == [type |-> "int", value |-> n]
JsonHalf(n) == [type |-> "float", value |-> n]
JsonStr == [type |-> "str", value |-> 0]
JsonNull == [type |-> "null", value |-> 0]
\* msg.get("ack") of a handshake without "ack", or with "ack": null
NoOffset == JsonNull
\* the least integer a client names: msg["ack"] can be negative
MinOffset == -1
\* the values Python orders against an integer; the others raise TypeError
Ordered(v) == v.type \in {"int", "float"}

Tokens == 1..MaxSessions
Conns == 1..MaxConns

(* ---------------- pure helpers ---------------- *)
\* the upstream bytes [from, from + n)
Stream(from, n) == [i \in 1..n |-> from + i - 1]

\* sum(len(chunk) for chunk in buffer)
RECURSIVE SumLen(_)
SumLen(buf) == IF buf = <<>> THEN 0 ELSE Len(Head(buf)) + SumLen(Tail(buf))

\* b"".join(chunks)
RECURSIVE Concat(_)
Concat(chunks) == IF chunks = <<>> THEN <<>> ELSE Head(chunks) \o Concat(Tail(chunks))

\* Python slice chunk[skip:], a negative skip counting from the end
Slice(chunk, skip) ==
    LET n == Len(chunk)
        start == IF skip >= 0 THEN (IF skip > n THEN n ELSE skip)
                 ELSE (IF n + skip < 0 THEN 0 ELSE n + skip)
    IN  SubSeq(chunk, start + 1, n)

pack_frame(frame_type, payload) == <<frame_type, payload>>

\* struct.pack("!BH", frame_type, len(payload)) + payload, byte by byte
pack_bytes(frame_type, payload) ==
    <<frame_type, Len(payload) \div 256, Len(payload) % 256>> \o payload

\* the while loop of unpack_frames dropping the bytes of an incomplete frame
RECURSIVE UnpackLoop_discard(_, _)
UnpackLoop_discard(data, frames) ==
    IF Len(data) >= 3
    THEN LET frame_type == data[1]
             length == data[2] * 256 + data[3]
         IN  IF Len(data) < 3 + length
             THEN [frames |-> frames, data |-> <<>>]
             ELSE UnpackLoop_discard(SubSeq(data, 3 + length + 1, Len(data)),
                                     Append(frames, <<frame_type, SubSeq(data, 4, 3 + length)>>))
    ELSE [frames |-> frames, data |-> data]

\* the while loop of unpack_frames: the frames taken off the front of data
\* and what is left of data
RECURSIVE UnpackLoop(_, _)
UnpackLoop(data, frames) ==
    IF Len(data) >= 3
    THEN LET frame_type == data[1]
             length == data[2] * 256 + data[3]
         IN  IF Len(data) < 3 + length
             THEN [frames |-> frames, data |-> data]
             ELSE UnpackLoop(SubSeq(data, 3 + length + 1, Len(data)),
                             Append(frames, <<frame_type, SubSeq(data, 4, 3 + length)>>))
    ELSE [frames |-> frames, data |-> data]

unpack_frames(data) == UnpackLoop(data, <<>>)

ErrorMsg(reason) == [error |-> reason]
SessionMsg(t) == [session |-> t]

\* Evict with an if for the while: at most one chunk is dropped
Evict_once(buf) == IF SumLen(buf) > BUFFER_LIMIT THEN Tail(buf) ELSE buf

\* the popleft loop of _append_buffer
RECURSIVE Evict(_)
Evict(buf) == IF SumLen(buf) > BUFFER_LIMIT THEN Evict(Tail(buf)) ELSE buf

\* _append_buffer putting the chunk in front of the deque
_append_buffer_front(buf, data) == Evict(<<data>> \o buf)

_append_buffer(buf, data) == Evict(Append(buf, data))

\* TrimLoop keeping a chunk that ends exactly at the acknowledged offset
RECURSIVE TrimLoop_strict(_, _, _)
TrimLoop_strict(buf, current_offset, ack) ==
    IF buf # <<>> /\ current_offset + Len(Head(buf)) < ack
    THEN TrimLoop_strict(Tail(buf), current_offset + Len(Head(buf)), ack)
    ELSE buf

\* the popleft loop of _trim_buffer, current_offset being the offset of buf[0]
RECURSIVE TrimLoop(_, _, _)
TrimLoop(buf, current_offset, ack) ==
    IF buf # <<>> /\ current_offset + Len(Head(buf)) <= ack
    THEN TrimLoop(Tail(buf), current_offset + Len(Head(buf)), ack)
    ELSE buf

\* _trim_buffer for an ack_offset that can be ordered: an end offset is at
\* most n + 0.5 exactly when it is at most n
_trim_buffer(buf, total, ack_offset) ==
    TrimLoop(buf, total - SumLen(buf), ack_offset.value)

\* _trim_buffer raises TypeError: the loop condition compares an offset
\* with ack_offset once the buffer is not empty
TrimRaises(buf, ack_offset) == buf # <<>> /\ ~Ordered(ack_offset)

\* the skip computed by attach_client for a resume below total_bytes
ReplaySkip(buf, total, offset) == offset - (total - SumLen(buf))

\* One round of the replay loop of attach_client from position idx of the
\* deque iterator: chunks wholly skipped are passed over, the next chunk is
\* sliced at skip.  idx = Len(buf) + 1 and send = <<>> when the loop is over.
RECURSIVE ReplayAdvance(_, _, _)
ReplayAdvance(buf, idx, skip) ==
    IF idx > Len(buf) THEN [idx |-> idx, send |-> <<>>, over |-> TRUE]
    ELSE IF skip >= Len(buf[idx]) THEN ReplayAdvance(buf, idx + 1, skip - Len(buf[idx]))
    ELSE [idx |-> idx + 1, send |-> Slice(buf[idx], skip), over |-> FALSE]

(* ---------------- state ---------------- *)
VARIABLES
    sessions,   \* the registry: the tokens that are keys of the sessions dict
    minted,     \* number of Session objects created so far (tokens 1..minted)
    session,    \* the fields of each Session object
    mud,        \* each session's upstream connection, as its transport sees it
    conn,       \* each client connection and the coroutine serving it
    now,        \* time.time()
    quiet,      \* history: the connections whose attach has run undisturbed
    calm,       \* history: the connections attached since the last upstream chunk
    codec       \* a client byte stream and the buf of the _read_client reading it

vars == <<sessions, minted, session, mud, conn, now, quiet, calm, codec>>

\* Session.__init__.  mud_task is where the upstream relay task stands: not
\* created ("none"), at its read ("read"), in the drain() after a chunk was
\* written ("data_drain", mud_drain_on being the connection written to and
\* mud_drain_closing whether it was closing then), in the drain() of
\* _handle_mud_disconnect ("disc_drain"), returned ("done") or ended by an
\* exception ("crashed").
NewSession(t) ==
    [ buffer |-> <<>>, ack_offset |-> JsonInt(0), total_bytes |-> 0,
      client_writer |-> None, mud_reader |-> FALSE, mud_writer |-> FALSE,
      last_active |-> t, mud_task |-> "none", mud_drain_on |-> None,
      mud_drain_closing |-> FALSE ]

\* an upstream connection: bytes the MUD has sent, close() calls made on the
\* writer, and the client payloads written to it (by which connection's
\* loop and which connection the session held attached then), and whether
\* the MUD has reset it
NewMud == [ sent |-> 0, closes |-> 0, recv |-> <<>>, reset |-> FALSE ]

\* a client connection: where its coroutine stands, the session it serves,
\* the resume offset of its handshake, the deque iterator of its replay
\* (next index, and whether the deque was mutated since it was created),
\* the connection whose drain() its attach_client waits for and whether
\* that connection was closing when the drain began, the frames written to
\* it, whether its transport was closed, whether it is lost and whether it
\* was lost with an error (its StreamReader then holds the exception)
NewConn ==
    [ pc |-> "idle", sess |-> None, resume_offset |-> NoOffset,
      it_idx |-> 0, stale |-> FALSE, drain_on |-> None, drain_closing |-> FALSE,
      out |-> <<>>, closed |-> FALSE, lost |-> FALSE, reset |-> FALSE ]

\* a client that sends the frames input: the bytes not read yet, the
\* bytearray buf of _read_client and the frames unpack_frames has returned
NewCodec(input, wire) == [input |-> input, wire |-> wire, buf |-> <<>>, frames |-> <<>>]

InitProgram ==
    /\ sessions = {}
    /\ minted = 0
    /\ session = [t \in Tokens |-> NewSession(0)]
    /\ mud = [t \in Tokens |-> NewMud]
    /\ conn = [c \in Conns |-> NewConn]
    /\ now = 0
    /\ quiet = [c \in Conns |-> FALSE]
    /\ calm = [c \in Conns |-> FALSE]

Init ==
    /\ InitProgram
    /\ codec = NewCodec(<<>>, <<>>)

(* ---------------- writing to a client ---------------- *)
\* writer.write(pack_frame(..)) on connection cw: the transport drops what
\* is written to it once the connection is lost; after close() it still
\* takes the writes until its unsent bytes are flushed
Written(C, cw, frame) ==
    IF C[cw].lost THEN C ELSE [C EXCEPT ![cw].out = Append(@, frame)]

\* _send_to_client: nothing is sent when no client is attached
_send_to_client(S, C, t, frame_type, data) ==
    IF S[t].client_writer # None
    THEN Written(C, S[t].client_writer, pack_frame(frame_type, data))
    ELSE C

\* drain() in _send_to_client raises before its first await when the
\* connection of the attached writer was lost with an error: it raises the
\* exception the StreamReader of that connection holds
DrainRaises(S, C, t) ==
    S[t].client_writer # None /\ C[S[t].client_writer].reset

\* an exception leaves handle_client: the coroutine of connection c ends and
\* the stream server closes the transport of c
Crashed(C, c) ==
    [C EXCEPT ![c].pc = "crashed", ![c].closed = TRUE, ![c].drain_on = None,
              ![c].drain_closing = FALSE, ![c].it_idx = 0]

\* a mutation of the deque of session t invalidates the iterators over it
MarkStale(C, t) ==
    [c \in Conns |->
        IF C[c].sess = t /\ C[c].pc = "replay_drain"
        THEN [C[c] EXCEPT !.stale = TRUE] ELSE C[c]]

\* the connection of c is lost with an error (a reset by the client, a
\* write that fails): the transport is closed, the StreamReader holds the
\* exception and a read that waits on it raises, which ends the relay loop
\* there, the session keeping its client reference
Broken(C, c) ==
    [C EXCEPT ![c].closed = TRUE, ![c].lost = TRUE, ![c].reset = TRUE,
              ![c].pc = IF @ = "loop" THEN "crashed" ELSE @]

\* the connection accepted next
NextConn(c) == conn[c].pc = "idle" /\ \A d \in 1..(c - 1) : conn[d].pc # "idle"

(* ---------------- attach_client ---------------- *)
\* attach_client without the session frame
attach_client_silent(S, C, c, t, resume_offset) ==
    LET S1 == [S EXCEPT ![t].client_writer = c, ![t].last_active = now]
        C1 == [C EXCEPT ![c].sess = t, ![c].resume_offset = resume_offset]
    IN  IF ~S1[t].mud_reader \/ ~S1[t].mud_writer
        THEN [ session |-> S1,
               conn |-> [_send_to_client(S1, C1, t, TYPE_CTRL, ErrorMsg("Connection refused"))
                            EXCEPT ![c].pc = IF C[c].reset THEN "done" ELSE "refuse_drain"] ]
        ELSE [ session |-> S1,
               conn |-> IF C[c].reset THEN Crashed(C1, c)
                        ELSE [C1 EXCEPT ![c].pc = "sess_drain", ![c].drain_on = c] ]

\* attach_client up to its first await: the writer replaces the attachment;
\* without an upstream connection the client is told "Connection refused",
\* otherwise it is sent the session token.  On a connection that was reset
\* already the frame is dropped and drain() raises at once: that ends
\* handle_client, and in _handle_mud_disconnect, where it is swallowed,
\* nothing is left to close.
attach_client(S, C, c, t, resume_offset) ==
    LET S1 == [S EXCEPT ![t].client_writer = c, ![t].last_active = now]
        C1 == [C EXCEPT ![c].sess = t, ![c].resume_offset = resume_offset]
    IN  IF ~S1[t].mud_reader \/ ~S1[t].mud_writer
        THEN [ session |-> S1,
               conn |-> [_send_to_client(S1, C1, t, TYPE_CTRL, ErrorMsg("Connection refused"))
                            EXCEPT ![c].pc = IF C[c].reset THEN "done" ELSE "refuse_drain"] ]
        ELSE [ session |-> S1,
               conn |-> IF C[c].reset THEN Crashed(C1, c)
                        ELSE [_send_to_client(S1, C1, t, TYPE_CTRL, SessionMsg(t))
                                 EXCEPT ![c].pc = "sess_drain", ![c].drain_on = c] ]

\* How a drain() on connection cw ends that did not raise at once.  When cw
\* was closing as the drain began, drain() has yielded for one iteration of
\* the event loop and raises exactly when cw is lost by now.  Otherwise it
\* waited for the write buffer and can raise only when cw was lost with an
\* error meanwhile.
DrainFails(C, cw, closing, raises) ==
    /\ cw # None
    /\ IF closing THEN raises = C[cw].lost ELSE raises => C[cw].reset

\* attach_client goes on to the relay loop: the client relay task is created;
\* its first read raises when the connection was lost with an error
Relay(C, c) ==
    [C EXCEPT ![c].pc = IF C[c].reset THEN "crashed" ELSE "loop",
              ![c].drain_on = None, ![c].drain_closing = FALSE, ![c].it_idx = 0]

\* The replay loop of attach_client from iterator position idx until its
\* next await that can suspend: with no client attached _send_to_client
\* returns at once and the loop runs to its end; otherwise one chunk is
\* written and attach_client waits in drain(), unless drain() raises at
\* once.  After the loop the client relay task is created.
ReplayRound(c, idx, skip) ==
    LET t == conn[c].sess
        cw == session[t].client_writer
        r == ReplayAdvance(session[t].buffer, idx, skip)
    IN  IF cw = None \/ r.over
        THEN conn' = Relay(conn, c)
        ELSE IF DrainRaises(session, conn, t)
        THEN conn' = Crashed(conn, c)
        ELSE conn' = [_send_to_client(session, conn, t, TYPE_DATA, r.send)
                         EXCEPT ![c].pc = "replay_drain", ![c].it_idx = r.idx,
                                ![c].stale = FALSE,
                                ![c].drain_on = cw,
                                ![c].drain_closing = conn[cw].closed]

\* attach_client after the session frame was drained: choose what to replay.
\* A resume offset that is no number raises TypeError in the comparison
\* with total_bytes; a float raises it in the slice of the first chunk that
\* is not skipped, before _send_to_client is called.
AttachReplay(c) ==
    /\ conn[c].pc = "sess_drain"
    /\ LET t == conn[c].sess
           off == conn[c].resume_offset
           skip == ReplaySkip(session[t].buffer, session[t].total_bytes, off.value)
       IN  \E raises \in {FALSE, TRUE} :
             /\ DrainFails(conn, conn[c].drain_on, conn[c].drain_closing, raises)
             /\ IF raises THEN conn' = Crashed(conn, c)
                ELSE CASE off = NoOffset -> ReplayRound(c, 1, 0)
                       [] off.type = "str" -> conn' = Crashed(conn, c)
                       [] off.type = "float" ->
                            IF off.value < session[t].total_bytes
                               /\ ~ReplayAdvance(session[t].buffer, 1, skip).over
                            THEN conn' = Crashed(conn, c)
                            ELSE conn' = Relay(conn, c)
                       [] off.type = "int" ->
                            IF off.value < session[t].total_bytes
                            THEN ReplayRound(c, 1, skip)
                            ELSE conn' = Relay(conn, c)
    /\ UNCHANGED <<sessions, minted, session, mud, now>>

\* attach_client after a replayed chunk was drained: the deque iterator
\* raises RuntimeError when the deque was mutated under it
AttachReplayNext(c) ==
    /\ conn[c].pc = "replay_drain"
    /\ \E raises \in {FALSE, TRUE} :
         /\ DrainFails(conn, conn[c].drain_on, conn[c].drain_closing, raises)
         /\ IF raises \/ conn[c].stale
            THEN conn' = Crashed(conn, c)
            ELSE ReplayRound(c, conn[c].it_idx, 0)
    /\ UNCHANGED <<sessions, minted, session, mud, now>>

(* ---------------- _handle_mud_disconnect ---------------- *)
\* _handle_mud_disconnect after the error frame was drained: close the
\* client writer the session holds now (AttributeError when it holds none),
\* then close and forget the upstream writer
DisconnectFinish(t) ==
    LET cw == session[t].client_writer
    IN  IF cw = None
        THEN [ raised |-> TRUE, session |-> session, conn |-> conn, mud |-> mud ]
        ELSE [ raised |-> FALSE,
               conn |-> [conn EXCEPT ![cw].closed = TRUE],
               session |-> [session EXCEPT ![t].mud_writer = FALSE],
               mud |-> IF session[t].mud_writer
                       THEN [mud EXCEPT ![t].closes = @ + 1] ELSE mud ]

\* attach_client on a session without upstream, after its await
AttachRefused(c) ==
    /\ conn[c].pc = "refuse_drain"
    /\ LET r == DisconnectFinish(conn[c].sess)
       IN  /\ session' = r.session
           /\ mud' = r.mud
           /\ conn' = IF r.raised THEN Crashed(r.conn, c)
                      ELSE [r.conn EXCEPT ![c].pc = "done", ![c].drain_on = None]
    /\ UNCHANGED <<sessions, minted, now>>

(* ---------------- handle_client ---------------- *)
\* handle_client writes the error frame of a rejected handshake and waits in
\* drain()
Reject(C, c, reason) ==
    [Written(C, c, pack_frame(TYPE_CTRL, ErrorMsg(reason)))
        EXCEPT ![c].pc = "reject_drain", ![c].drain_on = c,
               ![c].drain_closing = C[c].closed]

\* the first read holds no complete frame, or its first frame is a Data
\* frame: handle_client up to its await
HandshakeMissing(c) ==
    /\ NextConn(c)
    /\ \E first \in {"none", "data"} :
         conn' = Reject(conn, c, "Missing control frame")
    /\ UNCHANGED <<sessions, minted, session, mud, now>>

\* the drain() of a rejected handshake ends: it returns, the writer is
\* closed and handle_client returns; or it raises on a connection that was
\* lost meanwhile and handle_client ends there
RejectDrained(c) ==
    /\ conn[c].pc = "reject_drain"
    /\ \E raises \in {FALSE, TRUE} :
         /\ DrainFails(conn, conn[c].drain_on, conn[c].drain_closing, raises)
         /\ conn' = IF raises THEN Crashed(conn, c)
                    ELSE [conn EXCEPT ![c].pc = "rejected", ![c].closed = TRUE,
                                      ![c].drain_on = None, ![c].drain_closing = FALSE]
    /\ UNCHANGED <<sessions, minted, session, mud, now>>

\* the first frame is a Control frame whose payload is not a JSON object:
\* json.loads or the lookup of "resume" raises and handle_client ends there
HandshakeBadJson(c) ==
    /\ NextConn(c)
    /\ conn' = Crashed(conn, c)
    /\ UNCHANGED <<sessions, minted, session, mud, now>>

\* a client can name a token only once a session frame has carried it
Disclosed(token) ==
    \E c \in Conns : \E i \in 1..Len(conn[c].out) :
        conn[c].out[i] = pack_frame(TYPE_CTRL, SessionMsg(token))

\* the tokens a resume can name: a disclosed one, or one no session ever had
Nameable(token) == Disclosed(token) \/ token = MaxSessions + 1

\* HandshakeResume falling through to the creation of a session when the
\* token is unknown
HandshakeResume_fallthrough(c, token, offset) ==
    /\ NextConn(c)
    /\ Nameable(token)
    /\ IF token \in sessions
       THEN LET r == attach_client(session, conn, c, token, offset)
            IN  session' = r.session /\ conn' = r.conn /\ UNCHANGED <<sessions, minted>>
       ELSE IF minted < MaxSessions
       THEN /\ minted' = minted + 1
            /\ session' = [session EXCEPT ![minted + 1] = NewSession(now)]
            /\ sessions' = sessions \cup {minted + 1}
            /\ conn' = [conn EXCEPT ![c].pc = "dialing", ![c].sess = minted + 1]
       ELSE /\ conn' = Reject(conn, c, "Invalid session")
            /\ UNCHANGED <<sessions, minted, session>>
    /\ UNCHANGED <<mud, now>>

\* {"resume": token} or {"resume": token, "ack": offset}: attach_client up
\* to its first await for a token of the registry; for any other token the
\* rejection up to its await
HandshakeResume(c, token, offset) ==
    /\ NextConn(c)
    /\ Nameable(token)
    /\ IF token \in sessions
       THEN LET r == attach_client(session, conn, c, token, offset)
            IN  session' = r.session /\ conn' = r.conn
       ELSE /\ conn' = Reject(conn, c, "Invalid session")
            /\ UNCHANGED session
    /\ UNCHANGED <<sessions, minted, mud, now>>

\* any other JSON object, {"new": true} or not: a Session is created and
\* registered and the upstream dial starts
HandshakeNew(c, msg) ==
    /\ NextConn(c)
    /\ minted < MaxSessions
    /\ LET t == minted + 1
       IN  /\ minted' = t
           /\ session' = [session EXCEPT ![t] = NewSession(now)]
           /\ sessions' = sessions \cup {t}
           /\ conn' = [conn EXCEPT ![c].pc = "dialing", ![c].sess = t]
    /\ UNCHANGED <<mud, now>>

\* connect_to_mud ends.  The dial succeeded or was refused: the upstream
\* relay task is created and attach_client runs to its first await.  The
\* dial failed with another error (unknown host, timeout, unreachable): the
\* exception leaves connect_to_mud and handle_client, no task is created
\* and the registered session is left as it was constructed.
DialComplete(c, result) ==
    /\ conn[c].pc = "dialing"
    /\ LET t == conn[c].sess
           S == IF result = "connected"
                THEN [session EXCEPT ![t].mud_reader = TRUE, ![t].mud_writer = TRUE,
                                     ![t].mud_task = "read"]
                ELSE [session EXCEPT ![t].mud_task = "crashed"]
           r == attach_client(S, conn, c, t, NoOffset)
       IN  IF result = "error"
           THEN /\ conn' = [Crashed(conn, c) EXCEPT ![c].sess = None]
                /\ UNCHANGED session
           ELSE session' = r.session /\ conn' = r.conn
    /\ UNCHANGED <<sessions, minted, mud, now>>

(* ---------------- _read_mud ---------------- *)
\* a chunk of n bytes is read from upstream, buffered and written to the
\* attached client; the relay then waits in drain() (it returns to the read
\* at once when no client is attached, and drain() raises at once when the
\* connection was lost with an error)
MudData(t, n) ==
    /\ session[t].mud_task = "read"
    /\ LET data == Stream(mud[t].sent, n)
           S == [session EXCEPT ![t].total_bytes = @ + Len(data),
                                ![t].buffer = _append_buffer(@, data)]
           C == _send_to_client(S, MarkStale(conn, t), t, TYPE_DATA, data)
       IN  /\ conn' = C
           /\ session' =
                 IF session[t].client_writer = None THEN S
                 ELSE IF DrainRaises(session, conn, t)
                 THEN [S EXCEPT ![t].mud_task = "crashed"]
                 ELSE [S EXCEPT ![t].mud_task = "data_drain",
                                ![t].mud_drain_on = session[t].client_writer,
                                ![t].mud_drain_closing =
                                    conn[session[t].client_writer].closed]
    /\ mud' = [mud EXCEPT ![t].sent = @ + n]
    /\ UNCHANGED <<sessions, minted, now>>

\* the drain() of the upstream relay ends: it raises and the relay task
\* ends there, or it returns and the relay reads again, which raises at
\* once when the upstream connection was reset meanwhile
MudDrained(t) ==
    /\ session[t].mud_task = "data_drain"
    /\ \E raises \in {FALSE, TRUE} :
         /\ DrainFails(conn, session[t].mud_drain_on, session[t].mud_drain_closing, raises)
         /\ session' = [session EXCEPT
                           ![t].mud_task = IF raises \/ mud[t].reset
                                           THEN "crashed" ELSE "read",
                           ![t].mud_drain_on = None,
                           ![t].mud_drain_closing = FALSE]
    /\ UNCHANGED <<sessions, minted, mud, conn, now>>

\* the upstream connection is reset: a read that waits on it raises
\* ConnectionResetError and the relay task ends there, _handle_mud_disconnect
\* is not called; a relay that waits in the client drain meets the
\* exception at its next read
MudReset(t) ==
    /\ session[t].mud_reader
    /\ ~mud[t].reset
    /\ session[t].mud_task \in {"read", "data_drain", "crashed"}
    /\ session' = [session EXCEPT ![t].mud_task = IF @ = "read" THEN "crashed" ELSE @]
    /\ mud' = [mud EXCEPT ![t].reset = TRUE]
    /\ UNCHANGED <<sessions, minted, conn, now>>

\* the read returns b"": _handle_mud_disconnect("Connection lost") up to its
\* await (an error of the notification is swallowed); without a client, or
\* with one whose drain() raises at once, it has no await and runs to its end
MudEOF(t) ==
    /\ session[t].mud_task = "read"
    /\ IF DrainRaises(session, conn, t)
       THEN LET r == DisconnectFinish(t)
            IN  /\ session' = [r.session EXCEPT ![t].mud_task = "done"]
                /\ mud' = r.mud
                /\ conn' = r.conn
       ELSE IF session[t].client_writer # None
       THEN /\ conn' = _send_to_client(session, conn, t, TYPE_CTRL, ErrorMsg("Connection lost"))
            /\ session' = [session EXCEPT ![t].mud_task = "disc_drain"]
            /\ UNCHANGED mud
       ELSE /\ session' = [session EXCEPT ![t].mud_writer = FALSE, ![t].mud_task = "done"]
            /\ mud' = IF session[t].mud_writer
                      THEN [mud EXCEPT ![t].closes = @ + 1] ELSE mud
            /\ UNCHANGED conn
    /\ UNCHANGED <<sessions, minted, now>>

\* _handle_mud_disconnect of the upstream relay after its await
MudDisconnect(t) ==
    /\ session[t].mud_task = "disc_drain"
    /\ LET r == DisconnectFinish(t)
       IN  /\ session' = [r.session EXCEPT ![t].mud_task =
                              IF r.raised THEN "crashed" ELSE "done"]
           /\ mud' = r.mud
           /\ conn' = r.conn
    /\ UNCHANGED <<sessions, minted, now>>

(* ---------------- _read_client ---------------- *)
\* the read returns b"": the session's client reference is dropped
ClientEOF(c) ==
    /\ conn[c].pc = "loop"
    /\ ~conn[c].reset
    /\ session' = [session EXCEPT ![conn[c].sess].client_writer = None]
    /\ conn' = [conn EXCEPT ![c].pc = "exited"]
    /\ UNCHANGED <<sessions, minted, mud, now>>

\* the connection is reset by the client, wherever the coroutine that
\* serves it stands: the read of the relay loop raises ConnectionResetError;
\* a coroutine that is elsewhere meets the loss at its next drain() or read
ClientReset(c) ==
    /\ conn[c].pc # "idle"
    /\ ~conn[c].lost
    /\ conn' = Broken(conn, c)
    /\ UNCHANGED <<sessions, minted, session, mud, now>>

\* the frames of the last read are done with and the relay loop reads again
\* on a connection that was lost with an error while the loop waited in
\* the upstream drain(): the read raises the exception the StreamReader
\* holds and the loop ends there
ClientReadRaises(c) ==
    /\ conn[c].pc = "loop"
    /\ conn[c].reset
    /\ conn' = [conn EXCEPT ![c].pc = "crashed"]
    /\ UNCHANGED <<sessions, minted, session, mud, now>>

\* the unsent bytes of a closed connection are flushed and the connection is
\* lost (at once when nothing was unsent); an open connection that no relay
\* loop reads, its client gone, is lost when a write to it fails
ConnLost(c) ==
    /\ ~conn[c].lost
    /\ IF conn[c].closed
       THEN conn' = [conn EXCEPT ![c].lost = TRUE]
       ELSE /\ conn[c].pc \notin {"idle", "loop"}
            /\ conn' = Broken(conn, c)
    /\ UNCHANGED <<sessions, minted, session, mud, now>>

\* a Data frame: its payload is written to the session's upstream writer
\* (AttributeError when the session has none) and the loop waits in drain(),
\* which raises at once on a connection that is lost already
ClientData(c) ==
    /\ conn[c].pc = "loop"
    /\ LET t == conn[c].sess
       IN  IF ~session[t].mud_writer
           THEN conn' = [conn EXCEPT ![c].pc = "crashed"] /\ UNCHANGED mud
           ELSE /\ Len(mud[t].recv) < MaxUpWrites
                /\ mud' = [mud EXCEPT ![t].recv =
                              Append(@, [conn |-> c, owner |-> session[t].client_writer])]
                /\ conn' = [conn EXCEPT ![c].pc =
                                IF mud[t].reset THEN "crashed" ELSE "up_drain"]
    /\ UNCHANGED <<sessions, minted, session, now>>

\* the drain() of the client relay loop ends: it raises on an upstream
\* connection that was closed or reset and the relay task ends there, the
\* client connection left open; or it returns and the loop goes on with
\* the frames of the same read, then reads again
ClientDrained(c) ==
    /\ conn[c].pc = "up_drain"
    /\ LET t == conn[c].sess
       IN  \E raises \in {FALSE, TRUE} :
             /\ raises => (mud[t].closes > 0 \/ mud[t].reset)
             /\ conn' = [conn EXCEPT ![c].pc = IF raises THEN "crashed" ELSE "loop"]
    /\ UNCHANGED <<sessions, minted, session, mud, now>>

\* _handle_control on a payload that is not JSON
_handle_control_bad(S, t) == S

\* _handle_control on a JSON object without "ack"
_handle_control_plain(S, t) == [S EXCEPT ![t].last_active = now]

\* _handle_control on {"ack": ack}: ack_offset takes the value as it is;
\* when _trim_buffer raises, last_active is not set
_handle_control_ack(S, t, ack) ==
    IF TrimRaises(S[t].buffer, ack)
    THEN [S EXCEPT ![t].ack_offset = ack]
    ELSE [S EXCEPT ![t].ack_offset = ack,
                   ![t].buffer = IF Ordered(ack)
                                 THEN _trim_buffer(@, S[t].total_bytes, ack) ELSE @,
                   ![t].last_active = now]

\* a Control frame read by the client relay loop.  A payload that is JSON
\* but no object (5, null, "back", ["ack"]) raises TypeError at the lookup
\* of "ack"; that and the TypeError of _trim_buffer leave _handle_control
\* and end the relay task, the client connection left open.
ClientControl(c, kind, ack) ==
    /\ conn[c].pc = "loop"
    /\ LET t == conn[c].sess
           S == CASE kind = "bad" -> _handle_control_bad(session, t)
                  [] kind = "nonobject" -> session
                  [] kind = "plain" -> _handle_control_plain(session, t)
                  [] kind = "ack" -> _handle_control_ack(session, t, ack)
           raised == \/ kind = "nonobject"
                     \/ kind = "ack" /\ TrimRaises(session[t].buffer, ack)
           C == IF S[t].buffer # session[t].buffer THEN MarkStale(conn, t) ELSE conn
       IN  /\ session' = S
           /\ conn' = IF raised THEN [C EXCEPT ![c].pc = "crashed"] ELSE C
    /\ UNCHANGED <<sessions, minted, mud, now>>

(* ---------------- cleanup_sessions ---------------- *)
\* to_remove with the comparison reversed
to_remove_reversed == {t \in sessions : now - session[t].last_active < SESSION_TIMEOUT}

\* the sessions one sweep removes
to_remove == {t \in sessions : now - session[t].last_active > SESSION_TIMEOUT}

\* one sweep of the reaper
ReaperSweep ==
    /\ sessions' = sessions \ to_remove
    /\ mud' = [t \in Tokens |->
                 IF t \in to_remove /\ session[t].mud_writer
                 THEN [mud[t] EXCEPT !.closes = @ + 1] ELSE mud[t]]
    /\ UNCHANGED <<minted, session, conn, now>>

\* time passes
Tick ==
    /\ now + TickStep <= MaxNow
    /\ now' = now + TickStep
    /\ UNCHANGED <<sessions, minted, session, mud, conn>>

(* ---------------- the program ---------------- *)
\* the acknowledgements and resume offsets clients send, and the sizes of
\* the chunks read from upstream
Acks == {JsonInt(a) : a \in MinOffset..MaxAck} \cup {JsonHalf(0), JsonStr, JsonNull}
Offsets == {JsonInt(o) : o \in MinOffset..MaxOffset} \cup {JsonHalf(0), JsonStr, NoOffset}
Chunks == 1..MaxChunk

\* every coroutine of the program, its inputs drawn from the given sets, the
\* upstream stream being of at most Total bytes and the server accepting
\* the connections ConnSet
Program(AckSet, OffsetSet, ChunkSet, Total, ConnSet) ==
    \/ \E c \in ConnSet : HandshakeMissing(c)
    \/ \E c \in ConnSet : RejectDrained(c)
    \/ \E c \in ConnSet : HandshakeBadJson(c)
    \/ \E c \in ConnSet, token \in 1..(MaxSessions + 1), offset \in OffsetSet :
          HandshakeResume(c, token, offset)
    \/ \E c \in ConnSet, msg \in {"new", "other"} : HandshakeNew(c, msg)
    \/ \E c \in ConnSet, result \in {"connected", "refused", "error"} : DialComplete(c, result)
    \/ \E c \in ConnSet : AttachReplay(c)
    \/ \E c \in ConnSet : AttachReplayNext(c)
    \/ \E c \in ConnSet : AttachRefused(c)
    \/ \E c \in ConnSet : ClientEOF(c)
    \/ \E c \in ConnSet : ClientReset(c)
    \/ \E c \in ConnSet : ClientReadRaises(c)
    \/ \E c \in ConnSet : ConnLost(c)
    \/ \E c \in ConnSet : ClientData(c)
    \/ \E c \in ConnSet : ClientDrained(c)
    \/ \E c \in ConnSet, ack \in AckSet : ClientControl(c, "ack", ack)
    \/ \E c \in ConnSet, kind \in {"bad", "nonobject", "plain"} :
          ClientControl(c, kind, JsonNull)
    \/ \E t \in Tokens, n \in ChunkSet : mud[t].sent + n <= Total /\ MudData(t, n)
    \/ \E t \in Tokens : MudDrained(t)
    \/ \E t \in Tokens : MudReset(t)
    \/ \E t \in Tokens : MudEOF(t)
    \/ \E t \in Tokens : MudDisconnect(t)
    \/ ReaperSweep

\* quiet[c]: attach_client is running for connection c, or has just returned,
\* and no other coroutine has run since it was called
QuietNext ==
    quiet' = [c \in Conns |->
        IF conn[c].pc \in {"idle", "dialing"}
        THEN conn'[c].pc \in {"sess_drain", "refuse_drain"}
        ELSE /\ quiet[c]
             /\ conn[c].pc \in {"sess_drain", "replay_drain", "refuse_drain"}
             /\ \/ conn'[c].pc # conn[c].pc
                \/ conn'[c].it_idx # conn[c].it_idx]

\* calm[c]: attach_client is running for connection c, or has returned and
\* its relay loop is reading, and no chunk has arrived from upstream since
\* it was called
CalmNext ==
    calm' = [c \in Conns |->
        /\ conn'[c].pc \in {"sess_drain", "replay_drain", "loop"}
        /\ calm[c] \/ conn[c].pc \in {"idle", "dialing"}
        /\ \A t \in Tokens : mud'[t].sent = mud[t].sent]

\* the history variables of the program
History == QuietNext /\ CalmNext

\* the program while the sessions stay younger than the idle threshold
Next == Program(Acks, Offsets, Chunks, MaxTotal, Conns) /\ History /\ UNCHANGED codec

Spec == Init /\ [][Next]_vars

\* the relays: the clients acknowledge everything or nothing and resume
\* without an offset
NextRelay == Program({JsonInt(MaxAck)}, {NoOffset}, Chunks, MaxTotal, Conns) /\ History /\ UNCHANGED codec

SpecRelay == Init /\ [][NextRelay]_vars

\* the resumes: the clients resume with every offset and acknowledge
\* everything or nothing, the upstream stream is of ResumeTotal bytes
NextResume == Program({JsonInt(MaxAck)}, Offsets, Chunks, ResumeTotal, Conns) /\ History /\ UNCHANGED codec

SpecResume == Init /\ [][NextResume]_vars

\* the buffer: one client sends every acknowledgement up to the end of an
\* upstream stream of BufferTotal bytes
BufferAcks == {JsonInt(a) : a \in MinOffset..BufferTotal} \cup {JsonHalf(0), JsonStr, JsonNull}

NextBuffer == Program(BufferAcks, {NoOffset}, Chunks, BufferTotal, {1}) /\ History /\ UNCHANGED codec

SpecBuffer == Init /\ [][NextBuffer]_vars

\* time passes between the steps; the clients acknowledge everything or
\* nothing and resume without an offset, upstream sends whole chunks
NextTimed == (Program({JsonInt(MaxAck)}, {NoOffset}, {MaxChunk}, MaxTotal, Conns) \/ Tick) /\ History /\ UNCHANGED codec

SpecTimed == Init /\ [][NextTimed]_vars

(* ---------------- the frame codec ---------------- *)
\* the frames a client can send
Payloads == UNION {[1..n -> 0..MaxByte] : n \in 0..MaxPayload}
Frames == {<<frame_type, payload>> : frame_type \in {TYPE_DATA, TYPE_CTRL}, payload \in Payloads}
FrameLists == UNION {[1..n -> Frames] : n \in 0..MaxFrames}

\* the pack_frame encodings of the frames fs, one after the other
RECURSIVE PackAll(_)
PackAll(fs) ==
    IF fs = <<>> THEN <<>>
    ELSE pack_bytes(Head(fs)[1], Head(fs)[2]) \o PackAll(Tail(fs))

InitCodec ==
    /\ InitProgram
    /\ \E input \in FrameLists : codec = NewCodec(input, PackAll(input))

\* one round of _read_client: a read returns the next k bytes, buf is
\* extended by them and unpack_frames takes the complete frames off buf
ReadClientBytes(k) ==
    /\ k <= Len(codec.wire)
    /\ LET r == unpack_frames(codec.buf \o SubSeq(codec.wire, 1, k))
       IN  codec' = [codec EXCEPT !.wire = SubSeq(@, k + 1, Len(@)),
                                  !.buf = r.data,
                                  !.frames = @ \o r.frames]
    /\ UNCHANGED <<sessions, minted, session, mud, conn, now, quiet, calm>>

NextCodec == \E k \in 1..(MaxFrames * (3 + MaxPayload)) : ReadClientBytes(k)

SpecCodec == InitCodec /\ [][NextCodec]_vars

(* ======================= the claims ======================= *)
\* offset of the first retained byte
WindowStart(t) == session[t].total_bytes - SumLen(session[t].buffer)

\* the payloads of the Data frames among frames, in order
RECURSIVE DataPayloads(_)
DataPayloads(frames) ==
    IF frames = <<>> THEN <<>>
    ELSE IF Head(frames)[1] = TYPE_DATA
         THEN <<Head(frames)[2]>> \o DataPayloads(Tail(frames))
         ELSE DataPayloads(Tail(frames))

\* frames holds the Control frame {"error": reason}
HasError(frames, reason) ==
    \E i \in 1..Len(frames) : frames[i] = pack_frame(TYPE_CTRL, ErrorMsg(reason))

\* frames holds some Control error frame
HasAnyError(frames) ==
    \E i \in 1..Len(frames) :
        /\ frames[i][1] = TYPE_CTRL
        /\ "error" \in DOMAIN frames[i][2]

\* the integer offset connection c resumed at
ResumeAt(c) == conn[c].resume_offset.value

\* connection c resumed with an integer offset and its attach_client has
\* replayed (or is replaying) without any other coroutine running meanwhile
ReplayedQuietly(c) ==
    /\ quiet[c]
    /\ conn[c].pc \in {"replay_drain", "loop"}
    /\ conn[c].resume_offset.type = "int"

\* C1: a resume whose offset lies below the retained window is answered with
\* a Control error and with no Data frame.
C1_DataLossSignalled ==
    \A c \in Conns :
        (ReplayedQuietly(c) /\ ResumeAt(c) < WindowStart(conn[c].sess))
            => /\ HasAnyError(conn[c].out)
               /\ DataPayloads(conn[c].out) = <<>>

\* connection c resumed with an integer offset, its attach_client has
\* returned and no chunk has arrived from upstream since it was called
ReplayedCalmly(c) ==
    /\ calm[c]
    /\ conn[c].pc = "loop"
    /\ conn[c].resume_offset.type = "int"

\* C2: a resume at an offset o inside the retained window, with no upstream
\* data arriving during the replay, sends exactly the bytes [o, total_bytes),
\* the first overlapping chunk split and the later chunks whole; a resume at
\* o >= total_bytes replays nothing.
C2_ReplayExact ==
    \A c \in Conns :
        ReplayedCalmly(c) =>
            LET t == conn[c].sess
                o == ResumeAt(c)
                sent == DataPayloads(conn[c].out)
                buf == session[t].buffer
            IN  /\ (WindowStart(t) <= o /\ o < session[t].total_bytes) =>
                      /\ Concat(sent) = Stream(o, session[t].total_bytes - o)
                      /\ Len(sent) >= 1 /\ Len(sent) <= Len(buf)
                      /\ Tail(sent) = SubSeq(buf, Len(buf) - Len(sent) + 2, Len(buf))
                /\ o >= session[t].total_bytes => sent = <<>>

\* C3: ack_offset never decreases.
C3_AckMonotonic ==
    [][\A t \in Tokens :
          (session[t].ack_offset.type = "int" /\ session'[t].ack_offset.type = "int")
             => session'[t].ack_offset.value >= session[t].ack_offset.value]_vars

\* C4: once the upstream relay has handled end-of-stream the session is
\* closed: its upstream writer is closed and forgotten and its token is out
\* of the registry.
C4_UpstreamLostCloses ==
    \A t \in Tokens :
        session[t].mud_task = "done" =>
            /\ ~session[t].mud_writer
            /\ mud[t].closes >= 1
            /\ t \notin sessions

\* C5: a client relay loop writes to the upstream connection only while its
\* own connection is the one the session holds attached.
C5_SingleUpstreamWriter ==
    \A t \in Tokens : \A i \in 1..Len(mud[t].recv) :
        mud[t].recv[i].owner = mud[t].recv[i].conn

\* the rejection of a handshake: one error frame, the connection closed
Rejected(k, reason) ==
    /\ k.pc = "rejected"
    /\ k.out = <<pack_frame(TYPE_CTRL, ErrorMsg(reason))>>
    /\ k.closed

\* a handshake is being rejected: the error frame is written and
\* handle_client waits in its drain()
Rejecting(k, reason) ==
    /\ k.pc = "reject_drain"
    /\ k.out = <<pack_frame(TYPE_CTRL, ErrorMsg(reason))>>

\* C6: a first read without a frame, with a Data frame, or with a Control
\* frame that holds neither "new" nor "resume" is rejected with "Missing
\* control frame" and no session is created; when the drain of that frame
\* ends the connection is closed, nothing more written to it.
C6_HandshakeRejected ==
    [][\A c \in Conns :
          /\ (HandshakeMissing(c) \/ HandshakeBadJson(c) \/ HandshakeNew(c, "other"))
                => /\ Rejecting(conn'[c], "Missing control frame")
                   /\ sessions' = sessions
                   /\ minted' = minted
          /\ ( /\ Rejecting(conn[c], "Missing control frame")
               /\ conn'[c].pc # "reject_drain" )
                => /\ conn'[c].closed
                   /\ conn'[c].out = conn[c].out
                   /\ sessions' = sessions
                   /\ minted' = minted]_vars

\* C7: when the dial of a "new" handshake failed and attach_client has
\* returned, the client was sent "Connection refused" and closed, the
\* registry does not hold the session and no relay loop runs for it.
C7_DialFailureCloses ==
    \A c \in Conns :
        ( /\ conn[c].pc \in {"done", "crashed"}
          /\ conn[c].sess # None
          /\ ~session[conn[c].sess].mud_reader
          /\ \A d \in Conns \ {c} : conn[d].pc = "idle" )
        => /\ HasError(conn[c].out, "Connection refused")
           /\ conn[c].closed
           /\ conn[c].sess \notin sessions
           /\ session[conn[c].sess].mud_task \notin {"read", "disc_drain"}

\* the session has been idle for longer than the threshold
Expired(t) == now - session[t].last_active > SESSION_TIMEOUT

\* C8: a sweep of the reaper removes every session idle past the threshold
\* and closes its upstream writer; upstream chunks and client Data frames
\* leave last_active alone; a session within the threshold stays registered
\* and the reaper does not close its upstream.
C8_IdleReclaim ==
    [][ /\ ReaperSweep =>
              \A t \in sessions : Expired(t) =>
                  /\ t \notin sessions'
                  /\ session[t].mud_writer => mud'[t].closes = mud[t].closes + 1
        /\ \A t \in Tokens :
              (mud'[t].sent # mud[t].sent \/ mud'[t].recv # mud[t].recv)
                  => session'[t].last_active = session[t].last_active
        /\ \A t \in sessions : ~Expired(t) =>
              /\ t \in sessions'
              /\ mud'[t].closes > mud[t].closes => ~session'[t].mud_writer
      ]_vars

\* bytes of upstream data written to connection c
Delivered(c) == Len(Concat(DataPayloads(conn[c].out)))

C8_Witness ==
    \E t \in 1..minted :
        /\ t \notin sessions
        /\ session[t].mud_writer /\ mud[t].closes = 1
        /\ session[t].client_writer = None
        /\ \A c \in Conns : Delivered(c) < session[t].total_bytes

\* C9: end-of-stream on the attached connection drops the client reference
\* and changes nothing else of the session, its upstream connection or the
\* registry; while no client is attached every upstream chunk is appended,
\* and the upstream relay does not end while no client is attached.
C9_DetachKeepsSession ==
    [][ /\ \A c \in Conns :
              ( /\ conn[c].pc = "loop" /\ conn'[c].pc = "exited"
                /\ session[conn[c].sess].client_writer = c )
              => /\ session' = [session EXCEPT ![conn[c].sess].client_writer = None]
                 /\ mud' = mud
                 /\ sessions' = sessions
        /\ \A t \in Tokens :
              (session[t].client_writer = None /\ mud'[t].sent > mud[t].sent)
              => LET data == Stream(mud[t].sent, mud'[t].sent - mud[t].sent)
                     buf == session'[t].buffer
                 IN  /\ session'[t].total_bytes = session[t].total_bytes + Len(data)
                     /\ buf # <<>> /\ buf[Len(buf)] = data
                     /\ session'[t].mud_task = "read"
        /\ \A t \in Tokens :
              (session[t].client_writer = None /\ session[t].mud_task = "data_drain")
              => session'[t].mud_task # "crashed"
      ]_vars

\* C10: a resume naming a token that is not in the registry is answered
\* with "Invalid session" and changes nothing else; when the drain of that
\* frame ends the connection is closed, again with nothing else changed.
C10_UnknownTokenNoEffect ==
    [][ /\ \A c \in Conns, token \in 1..(MaxSessions + 1), offset \in Offsets :
             (HandshakeResume(c, token, offset) /\ token \notin sessions)
                => /\ Rejecting(conn'[c], "Invalid session")
                   /\ sessions' = sessions /\ minted' = minted
                   /\ session' = session /\ mud' = mud
                   /\ \A d \in Conns \ {c} : conn'[d] = conn[d]
        /\ \A c \in Conns :
             ( /\ Rejecting(conn[c], "Invalid session")
               /\ conn'[c].pc # "reject_drain" )
                => /\ conn'[c].closed
                   /\ conn'[c].out = conn[c].out
                   /\ sessions' = sessions /\ minted' = minted
                   /\ session' = session /\ mud' = mud
                   /\ \A d \in Conns \ {c} : conn'[d] = conn[d]
      ]_vars

C10_Witness ==
    \E c \in Conns :
        /\ Rejected(conn[c], "Invalid session")
        /\ sessions # {}
        /\ \E d \in Conns : conn[d].pc = "loop" /\ session[conn[d].sess].client_writer = d

\* the integer acknowledgement a inside the retained window is applied to
\* the session of connection c by this step
AckApplied(c, a) ==
    /\ conn[c].pc = "loop" /\ conn'[c] = conn[c] /\ mud' = mud
    /\ session'[conn[c].sess].ack_offset = JsonInt(a)
    /\ WindowStart(conn[c].sess) <= a
    /\ a <= session[conn[c].sess].total_bytes
    /\ ClientControl(c, "ack", JsonInt(a))

\* C11 as claimed: after an acknowledgement a inside the window the buffer
\* holds exactly the bytes [a, total_bytes).
C11_TrimExact ==
    [][\A c \in Conns, a \in MinOffset..BufferTotal :
          AckApplied(c, a) =>
              Concat(session'[conn[c].sess].buffer)
                  = Stream(a, session'[conn[c].sess].total_bytes - a)]_vars

\* C11 as amended: after an acknowledgement a inside the window the buffer
\* is the suffix of its chunks that starts with the chunk holding byte a:
\* it holds the bytes [w, total_bytes) with w <= a, and a lies in its first
\* chunk (the buffer is empty when a = total_bytes).
C11_TrimWholeChunks ==
    [][\A c \in Conns, a \in MinOffset..BufferTotal :
          AckApplied(c, a) =>
              LET t == conn[c].sess
                  old == session[t].buffer
                  buf == session'[t].buffer
                  total == session'[t].total_bytes
                  w == total - SumLen(buf)
              IN  /\ total = session[t].total_bytes
                  /\ buf = SubSeq(old, Len(old) - Len(buf) + 1, Len(old))
                  /\ Concat(buf) = Stream(w, total - w)
                  /\ w <= a
                  /\ buf # <<>> => a < w + Len(Head(buf))
                  /\ buf = <<>> => a = total]_vars

C11_Witness ==
    \E t \in Tokens :
        /\ session[t].buffer # <<>>
        /\ session[t].ack_offset.type = "int"
        /\ WindowStart(t) < session[t].ack_offset.value
        /\ session[t].ack_offset.value < WindowStart(t) + Len(Head(session[t].buffer))

\* C12: whatever the split of the encoded frames into reads, the frames
\* decoded so far followed by buf are the bytes read so far (no byte of an
\* incomplete frame is lost), the decoded frames are the first of the frames
\* sent, and once all bytes are read every frame was decoded and buf is empty.
C12_CodecRoundTrip ==
    /\ PackAll(codec.frames) \o codec.buf \o codec.wire = PackAll(codec.input)
    /\ Len(codec.frames) <= Len(codec.input)
    /\ codec.frames = SubSeq(codec.input, 1, Len(codec.frames))
    /\ codec.wire = <<>> => (codec.frames = codec.input /\ codec.buf = <<>>)

C12_Witness ==
    /\ Len(codec.input) = 2
    /\ Len(codec.frames) = 1
    /\ Len(codec.buf) > 3
    /\ codec.wire # <<>>


\* the upstream bytes written to connection c, in the order written
Sent(c) == Concat(DataPayloads(conn[c].out))

\* C13: whatever runs between the steps of an attach, the Data payloads
\* written to the attached connection are a contiguous run of the upstream
\* stream, in order, without repetition or gap, and the replay does not fail
\* on a buffer that was modified under it.
C13_AttachInterleavingExact ==
    \A c \in Conns :
        ( /\ conn[c].sess # None
          /\ \/ conn[c].resume_offset = NoOffset
             \/ /\ conn[c].resume_offset.type = "int"
                /\ WindowStart(conn[c].sess) <= ResumeAt(c) )
        => /\ Sent(c) # <<>> => Sent(c) = Stream(Sent(c)[1], Len(Sent(c)))
           /\ ~(conn[c].pc = "crashed" /\ conn[c].stale)

\* C14: end-of-stream on a connection that another connection has replaced
\* leaves the session's client reference on the newer connection.
C14_LoopBoundToAttachment ==
    [][\A c \in Conns :
          ( /\ conn[c].pc = "loop" /\ conn'[c].pc = "exited"
            /\ session[conn[c].sess].client_writer \notin {None, c} )
          => session'[conn[c].sess].client_writer
                 = session[conn[c].sess].client_writer]_vars

\* C15: once the upstream connection of a session was closed, an attach to it
\* starts no client relay loop and leaves no client attached when it ends,
\* and no client Data payload is written to the closed connection.
C15_CloseRaceSafe ==
    [][ /\ \A c \in Conns :
              ( /\ conn[c].pc \in {"sess_drain", "replay_drain"}
                /\ conn'[c].pc \in {"loop", "crashed"}
                /\ mud[conn[c].sess].closes > 0 )
              => /\ conn'[c].pc # "loop"
                 /\ session'[conn[c].sess].client_writer = None
        /\ \A t \in Tokens :
              Len(mud'[t].recv) > Len(mud[t].recv) => mud[t].closes = 0
      ]_vars

\* C16: an append leaves at most BUFFER_LIMIT bytes retained; what it leaves
\* is the buffer with the new chunk at its end and the fewest oldest chunks
\* removed that bring it within the budget; ack_offset plays no part.
C16_CapacityPolicy ==
    [][\A t \in Tokens :
          mud'[t].sent > mud[t].sent =>
              LET data == Stream(mud[t].sent, mud'[t].sent - mud[t].sent)
                  full == Append(session[t].buffer, data)
                  buf == session'[t].buffer
                  k == Len(full) - Len(buf)
              IN  /\ SumLen(buf) <= BUFFER_LIMIT
                  /\ k >= 0
                  /\ buf = SubSeq(full, k + 1, Len(full))
                  /\ k > 0 => SumLen(SubSeq(full, k, Len(full))) > BUFFER_LIMIT
                  /\ session'[t].ack_offset = session[t].ack_offset]_vars

\* one append has evicted two chunks, past the acknowledged offset
C16_Witness ==
    \E t \in Tokens :
        /\ session[t].ack_offset = JsonInt(1)
        /\ session[t].buffer = <<Stream(2, 2)>>
        /\ \E c \in Conns :
              DataPayloads(conn[c].out) = <<Stream(0, 1), Stream(1, 1), Stream(2, 2)>>

\* offset of the first byte the Session object s retains
WindowOf(s) == s.total_bytes - SumLen(s.buffer)

\* the chunks of buf that were there before this step appended to session t
KeptOf(t) ==
    IF session'[t].total_bytes > session[t].total_bytes /\ session'[t].buffer # <<>>
    THEN SubSeq(session'[t].buffer, 1, Len(session'[t].buffer) - 1)
    ELSE session'[t].buffer

\* C17: the buffer always holds exactly the upstream bytes
\* [windowStart, total_bytes); total_bytes and windowStart never decrease and
\* a step removes only leading chunks.
C17_BufferIsWindow ==
    /\ [](\A t \in Tokens :
            Concat(session[t].buffer)
                = Stream(WindowStart(t), session[t].total_bytes - WindowStart(t)))
    /\ [][\A t \in Tokens :
            /\ session'[t].total_bytes >= session[t].total_bytes
            /\ WindowOf(session'[t]) >= WindowOf(session[t])
            /\ Len(KeptOf(t)) <= Len(session[t].buffer)
            /\ KeptOf(t) = SubSeq(session[t].buffer,
                                  Len(session[t].buffer) - Len(KeptOf(t)) + 1,
                                  Len(session[t].buffer))]_vars

C17_Witness ==
    \E t \in Tokens :
        /\ session[t].total_bytes = BufferTotal
        /\ session[t].ack_offset.type = "int"
        /\ session[t].ack_offset.value > 0
        /\ WindowStart(t) > session[t].ack_offset.value
        /\ session[t].buffer # <<>>

\* C18: 0 <= ack_offset <= total_bytes in every state.
C18_AckWithinStream ==
    \A t \in Tokens :
        /\ session[t].ack_offset.type = "int"
        /\ 0 <= session[t].ack_offset.value
        /\ session[t].ack_offset.value <= session[t].total_bytes

\* C19: close is called at most once on the upstream connection of a
\* session, and it has been called once the upstream relay has handled the
\* end of the upstream stream.
C19_UpstreamClosedOnce ==
    \A t \in Tokens :
        /\ mud[t].closes <= 1
        /\ (session[t].mud_reader /\ session[t].mud_task = "done") => mud[t].closes = 1

\* the connections whose attach found the upstream connection present and
\* has not failed since
Attached(c) ==
    conn[c].pc \in {"sess_drain", "replay_drain", "loop", "up_drain", "exited"}

\* connection c was told that its session has no upstream connection
Refused(c) ==
    /\ conn[c].out # <<>>
    /\ conn[c].out[1] = pack_frame(TYPE_CTRL, ErrorMsg("Connection refused"))

\* C20: an attach to a session that has its upstream connection writes the
\* Control frame {"session": token} as the first frame of the connection, in
\* the step that makes the connection the attached one; nothing written
\* later comes before it, whatever the upstream relay does meanwhile; and a
\* connection that was not refused holds no Data frame unless the session
\* frame is its first frame, whether its attach went on or failed.
C20_SessionFrameFirst ==
    /\ [](\A c \in Conns :
            /\ Attached(c) =>
                  /\ conn[c].out # <<>>
                  /\ conn[c].out[1] = pack_frame(TYPE_CTRL, SessionMsg(conn[c].sess))
            /\ (DataPayloads(conn[c].out) # <<>> /\ ~Refused(c)) =>
                  conn[c].out[1] = pack_frame(TYPE_CTRL, SessionMsg(conn[c].sess)))
    /\ [][\A c \in Conns :
            /\ (conn[c].pc \in {"idle", "dialing"} /\ conn'[c].pc = "sess_drain") =>
                  /\ conn'[c].out = <<pack_frame(TYPE_CTRL, SessionMsg(conn'[c].sess))>>
                  /\ session'[conn'[c].sess].client_writer = c
            /\ Len(conn'[c].out) >= Len(conn[c].out)
            /\ SubSeq(conn'[c].out, 1, Len(conn[c].out)) = conn[c].out]_vars

C20_Witness ==
    \E c \in Conns :
        /\ conn[c].pc = "replay_drain"
        /\ ~quiet[c]
        /\ conn[c].out[1] = pack_frame(TYPE_CTRL, SessionMsg(conn[c].sess))
        /\ Len(DataPayloads(conn[c].out)) >= 2

====
